---- MODULE Spec2Model ----
(***************************************************************************)
(* The `migrate` pipeline of ga_extractor/extractor.py:                    *)
(*   _migrate_date_ranges -> __migrate_extract -> __migrate_transform.     *)
(*                                                                         *)
(* Date strings "YYYY-MM-DD" are triples <<y, m, d>> of their fields; a    *)
(* parsed datetime is its proleptic Gregorian ordinal, so parsing, adding  *)
(* a timedelta and formatting are three different computations.            *)
(* The metric values of a report row are the integers they denote.  The    *)
(* seven dimension values of a row are one identifier, `dimensions`; rows  *)
(* of one day's report have pairwise different dimension combinations.     *)
(* Session.session_uuid (random), website_id and hostname (constant) are   *)
(* left out of the records.                                                *)
(*                                                                         *)
(* The transform is modelled on the inputs its loop body runs on: metric   *)
(* values that are integers, and a day value from which both row[0] (the   *)
(* metrics) and row["dimensions"] can be read; both are taken from the     *)
(* first report row of the day.  On the plain list __migrate_extract       *)
(* stores, row["dimensions"] raises TypeError, and on the API's string     *)
(* metric values max(sessions, 1) does: such runs emit nothing at all.     *)
(***************************************************************************)
EXTENDS Integers, Sequences, FiniteSets

VARIABLES pc, start_date, end_date, date_ranges, requests, rows, r_idx,
          d_idx, page_view_id, session_id, sql_inserts

vars == <<pc, start_date, end_date, date_ranges, requests, rows, r_idx,
          d_idx, page_view_id, session_id, sql_inserts>>

(* ------------------------------ bounds --------------------------------- *)

\* largest ga:pageviews value of a report row
MaxViews == 5
\* largest ga:sessions value of a report row
MaxSessions == 3
\* largest number of report rows returned over one run (every day returns
\* at least one), hence also the largest number of days of a run
MaxRows == 2
\* longest date range, in days after the start date, of the date-range runs
MaxSpan == 3

(* --------------------------- calendar dates ---------------------------- *)

IsLeap(y) == y % 4 = 0 /\ (y % 100 # 0 \/ y % 400 = 0)

DaysInMonth(y, m) ==
    IF m = 2 THEN (IF IsLeap(y) THEN 29 ELSE 28)
    ELSE IF m \in {4, 6, 9, 11} THEN 30 ELSE 31

DaysBeforeMonth(y, m) ==
    <<0, 31, 59, 90, 120, 151, 181, 212, 243, 273, 304, 334>>[m]
        + (IF m > 2 /\ IsLeap(y) THEN 1 ELSE 0)

DaysBeforeYear(y) ==
    LET p == y - 1 IN p * 365 + (p \div 4) - (p \div 100) + (p \div 400)

\* datetime.strptime(s, '%Y-%m-%d'): the parsed day, as its ordinal
Strptime(s) == DaysBeforeYear(s[1]) + DaysBeforeMonth(s[1], s[2]) + s[3]

\* f"{dt:%Y-%m-%d}": the ordinal back to year, month, day
Strftime(ord) ==
    LET n0   == ord - 1
        n400 == n0 \div 146097
        r400 == n0 % 146097
        n100 == r400 \div 36524
        r100 == r400 % 36524
        n4   == r100 \div 1461
        r4   == r100 % 1461
        n1   == r4 \div 365
        n    == r4 % 365
        year == n400 * 400 + 1 + n100 * 100 + n4 * 4 + n1
    IN  IF n1 = 4 \/ n100 = 4 THEN <<year - 1, 12, 31>>
        ELSE LET guess == (n + 50) \div 32
                 month == IF DaysBeforeMonth(year, guess) > n
                          THEN guess - 1 ELSE guess
             IN  <<year, month, n - DaysBeforeMonth(year, month) + 1>>

\* start_date + timedelta(days=d)
PlusDays(ord, d) == ord + d

\* one element of the list _migrate_date_ranges builds
DateRange(start, d) ==
    [startDate |-> Strftime(PlusDays(start, d)),
     endDate   |-> Strftime(PlusDays(start, d))]

\* variant of RangeCount without the + 1
RangeCount_NoPlusOne(start, end) ==
    IF end - start > 0 THEN end - start ELSE 0

\* range((end_date.date() - start_date.date()).days + 1), as a length
RangeCount(start, end) ==
    IF end - start + 1 > 0 THEN end - start + 1 ELSE 0

\* _migrate_date_ranges(start_date, end_date)
DateRangesOf(sd, ed) ==
    LET start == Strptime(sd)
        end   == Strptime(ed)
    IN  [i \in 1..RangeCount(start, end) |-> DateRange(start, i - 1)]

(* ----------------------- the rows dict (ordered) ----------------------- *)

\* rows[key] = value on a dict that keeps insertion order
DictSet(d, key, value) ==
    IF \E i \in 1..Len(d) : d[i].key = key
    THEN [i \in 1..Len(d) |->
            IF d[i].key = key THEN [key |-> key, value |-> value] ELSE d[i]]
    ELSE Append(d, [key |-> key, value |-> value])

(* ------------------------------ records -------------------------------- *)

\* a report row: {'dimensions': [...], 'metrics': [{'values': [v, s]}]}
ReportRow(dims, v, s) == [dimensions |-> dims, values |-> <<v, s>>]

Session(sid, ts, dims) ==
    [kind |-> "Session", session_id |-> sid, created_at |-> ts,
     dimensions |-> dims]

PageView(id, sid, ts, dims) ==
    [kind |-> "PageView", id |-> id, session_id |-> sid, created_at |-> ts,
     dimensions |-> dims]

\* one setval statement
Setval(seq, value) == [sequence |-> seq, value |-> value]

\* one element of sql_inserts holding setval statements
SequenceReset(statements) ==
    [kind |-> "SequenceReset", statements |-> statements]

(* ------------------------ __migrate_transform -------------------------- *)

\* The loop state of __migrate_transform: the two counters and the list.
LoopState(inserts, sid, pvid) ==
    [sql_inserts |-> inserts, session_id |-> sid, page_view_id |-> pvid]

Max(a, b) == IF a > b THEN a ELSE b

\* n iterations of: append a Session and one PageView of it, advance both
\* counters
RECURSIVE OneViewEach(_, _, _, _)
OneViewEach(st, n, ts, dims) ==
    IF n <= 0 THEN st
    ELSE OneViewEach(
            LoopState(st.sql_inserts
                        \o <<Session(st.session_id, ts, dims),
                             PageView(st.page_view_id, st.session_id, ts, dims)>>,
                      st.session_id + 1,
                      st.page_view_id + 1),
            n - 1, ts, dims)

\* variant of Views that never advances page_view_id
RECURSIVE Views_SameId(_, _, _, _, _)
Views_SameId(st, n, sid, ts, dims) ==
    IF n <= 0 THEN st
    ELSE Views_SameId(
            LoopState(Append(st.sql_inserts,
                             PageView(st.page_view_id, sid, ts, dims)),
                      st.session_id,
                      st.page_view_id),
            n - 1, sid, ts, dims)

\* n iterations of: append a PageView of session sid, advance page_view_id
RECURSIVE Views(_, _, _, _, _)
Views(st, n, sid, ts, dims) ==
    IF n <= 0 THEN st
    ELSE Views(
            LoopState(Append(st.sql_inserts,
                             PageView(st.page_view_id, sid, ts, dims)),
                      st.session_id,
                      st.page_view_id + 1),
            n - 1, sid, ts, dims)

\* variant of SplitEqually that advances session_id before the inner loop
RECURSIVE SplitEqually_EarlyIncrement(_, _, _, _, _)
SplitEqually_EarlyIncrement(st, n, per, ts, dims) ==
    IF n <= 0 THEN st
    ELSE LET s1 == LoopState(Append(st.sql_inserts,
                                    Session(st.session_id, ts, dims)),
                             st.session_id + 1, st.page_view_id)
             s2 == Views(s1, per, s1.session_id, ts, dims)
         IN  SplitEqually_EarlyIncrement(s2, n - 1, per, ts, dims)

\* n iterations of: append a Session, then `per` PageViews of it, then
\* advance session_id
RECURSIVE SplitEqually(_, _, _, _, _)
SplitEqually(st, n, per, ts, dims) ==
    IF n <= 0 THEN st
    ELSE LET s1 == LoopState(Append(st.sql_inserts,
                                    Session(st.session_id, ts, dims)),
                             st.session_id, st.page_view_id)
             s2 == Views(s1, per, s1.session_id, ts, dims)
             s3 == LoopState(s2.sql_inserts, s2.session_id + 1,
                             s2.page_view_id)
         IN  SplitEqually(s3, n - 1, per, ts, dims)

\* variant of RestForLast with last_session_id = session_id
RestForLast_NextSession(st, page_views, sessions, ts, dims) ==
    LET s1 == OneViewEach(st, sessions, ts, dims)
        last_session_id == s1.session_id
    IN  Views(s1, page_views - sessions, last_session_id, ts, dims)

\* one page view for each session, the rest for the last session
RestForLast(st, page_views, sessions, ts, dims) ==
    LET s1 == OneViewEach(st, sessions, ts, dims)
        last_session_id == s1.session_id - 1
    IN  Views(s1, page_views - sessions, last_session_id, ts, dims)

\* variant of Policy whose first test is page_views == sessions
Policy_EqualOnly(page_views, sessions) ==
    IF page_views = sessions THEN "one_view_each"
    ELSE IF page_views % sessions = 0 THEN "split_equally"
    ELSE "rest_for_last"

\* the if / elif / else of the loop body
Policy(page_views, sessions) ==
    IF page_views \div sessions = 1 THEN "one_view_each"
    ELSE IF page_views % sessions = 0 THEN "split_equally"
    ELSE "rest_for_last"

\* One iteration of `for day, row in rows.items()`.  `row` is the list of
\* report rows of the day; the metrics are read from row[0] and no other
\* element of the list is read.  The dimensions are those of the same row.
TransformDay(st, day, row) ==
    LET timestamp  == day
        page_views == row[1].values[1]
        sessions   == Max(row[1].values[2], 1)
        dims       == row[1].dimensions
        policy     == Policy(page_views, sessions)
    IN  IF policy = "one_view_each"
        THEN OneViewEach(st, sessions, timestamp, dims)
        ELSE IF policy = "split_equally"
        THEN SplitEqually(st, sessions, page_views \div sessions,
                          timestamp, dims)
        ELSE \* one page view for each session, the rest for the last session
RestForLast(st, page_views, sessions, timestamp, dims)

\* The list handed to sql_inserts.extend after the loop: the two f-strings
\* are adjacent literals with no comma between them, so the list has ONE
\* element, the concatenation of both statements.
ResetEntries(pvid, sid) ==
    << SequenceReset(<<Setval("public.pageview_view_id_seq", pvid),
                       Setval("public.session_session_id_seq", sid)>>) >>

(* ------------------------------- inputs -------------------------------- *)

CalendarDates ==
    {d \in (2023..2025) \X (1..12) \X (1..31) : d[3] <= DaysInMonth(d[1], d[2])}

\* whole days from a to b
DaysApart(a, b) == Strptime(b) - Strptime(a)

\* the metric pairs a report row can carry
Metrics == (0..MaxViews) \X (0..MaxSessions)

\* the reports of n rows: row i has the i-th dimension combination
ReportsOf(n) ==
    {[i \in 1..n |-> ReportRow(i, m[i][1], m[i][2])] : m \in [1..n -> Metrics]}

\* the reports of at least one and at most n rows
ReportsUpTo(n) == UNION {ReportsOf(k) : k \in 1..n}

\* the reports of the date-range runs: one row, one session
SingleRowReports == {<<ReportRow(1, v, 1)>> : v \in 1..2}

RECURSIVE TotalRows(_)
TotalRows(d) ==
    IF d = <<>> THEN 0 ELSE Len(d[1].value) + TotalRows(Tail(d))

\* rows the next report may hold so that every later day still gets one
Quota == MaxRows - TotalRows(rows) - (Len(date_ranges) - r_idx)

(* ------------------------------- actions ------------------------------- *)

InitWith(starts, spans) ==
    /\ pc = "date_ranges"
    /\ start_date \in starts
    /\ end_date \in {e \in CalendarDates : DaysApart(start_date, e) \in spans}
    /\ date_ranges = <<>>
    /\ requests = <<>>
    /\ rows = <<>>
    /\ r_idx = 1
    /\ d_idx = 1
    /\ page_view_id = 1
    /\ session_id = 1
    /\ sql_inserts = <<>>

\* runs of one to MaxRows days
Init == InitWith({<<2024, 2, 28>>}, 0..(MaxRows - 1))

\* runs over month ends, a leap day and a year end, the empty range included
InitDates ==
    InitWith({<<2023, 2, 27>>, <<2023, 12, 30>>, <<2024, 2, 27>>,
              <<2024, 12, 30>>}, (-1)..MaxSpan)

\* date_ranges = _migrate_date_ranges(config['startDate'], config['endDate'])
MigrateDateRanges ==
    /\ pc = "date_ranges"
    /\ date_ranges' = DateRangesOf(start_date, end_date)
    /\ pc' = "extract"
    /\ UNCHANGED <<start_date, end_date, requests, rows, r_idx, d_idx,
                   page_view_id, session_id, sql_inserts>>

\* one iteration of `for r in date_ranges` in __migrate_extract
MigrateExtract(response) ==
    /\ pc = "extract"
    /\ r_idx <= Len(date_ranges)
    /\ LET r == date_ranges[r_idx]
       IN  /\ requests' = Append(requests,
                                 [dateRanges |-> <<r>>, response |-> response])
           /\ rows' = DictSet(rows, r.startDate, response)
    /\ r_idx' = r_idx + 1
    /\ UNCHANGED <<pc, start_date, end_date, date_ranges, d_idx,
                   page_view_id, session_id, sql_inserts>>

\* `return rows`, then the first statements of __migrate_transform
ExtractReturn ==
    /\ pc = "extract"
    /\ r_idx > Len(date_ranges)
    /\ pc' = "transform"
    /\ page_view_id' = 1
    /\ session_id' = 1
    /\ sql_inserts' = <<>>
    /\ d_idx' = 1
    /\ UNCHANGED <<start_date, end_date, date_ranges, requests, rows, r_idx>>

\* one iteration of `for day, row in rows.items()`
MigrateTransform ==
    /\ pc = "transform"
    /\ d_idx <= Len(rows)
    /\ LET st == TransformDay(
                    LoopState(sql_inserts, session_id, page_view_id),
                    rows[d_idx].key, rows[d_idx].value)
       IN  /\ sql_inserts' = st.sql_inserts
           /\ session_id' = st.session_id
           /\ page_view_id' = st.page_view_id
    /\ d_idx' = d_idx + 1
    /\ UNCHANGED <<pc, start_date, end_date, date_ranges, requests, rows,
                   r_idx>>

\* sql_inserts.extend([...]); return sql_inserts
TransformReturn ==
    /\ pc = "transform"
    /\ d_idx > Len(rows)
    /\ sql_inserts' = sql_inserts \o ResetEntries(page_view_id, session_id)
    /\ pc' = "done"
    /\ UNCHANGED <<start_date, end_date, date_ranges, requests, rows, r_idx,
                   d_idx, page_view_id, session_id>>

\* the reporting API answers a request with any report within the bounds
ExtractReport ==
    /\ pc = "extract"
    /\ r_idx <= Len(date_ranges)
    /\ \E response \in ReportsUpTo(Quota) : MigrateExtract(response)

\* the reporting API answers a request with a report of one row
ExtractSingleRowReport ==
    /\ pc = "extract"
    /\ \E response \in SingleRowReports : MigrateExtract(response)

Next ==
    \/ MigrateDateRanges
    \/ ExtractReport
    \/ ExtractReturn
    \/ MigrateTransform
    \/ TransformReturn

NextDates ==
    \/ MigrateDateRanges
    \/ ExtractSingleRowReport
    \/ ExtractReturn
    \/ MigrateTransform
    \/ TransformReturn

\* the transform on every report of up to MaxRows rows
Spec == Init /\ [][Next]_vars

\* the date-range partition and the extraction on longer ranges
SpecDates == InitDates /\ [][NextDates]_vars

(* ---------------------- vocabulary of the claims ----------------------- *)

Done == pc = "done"

IsSession(r) == r.kind = "Session"
IsPageView(r) == r.kind = "PageView"

\* the positions of sql_inserts holding a record of the row `dims` of `day`
RecordsOf(day, dims) ==
    {j \in DOMAIN sql_inserts :
        /\ sql_inserts[j].kind # "SequenceReset"
        /\ sql_inserts[j].created_at = day
        /\ sql_inserts[j].dimensions = dims}

SessionsOf(day, dims) == {j \in RecordsOf(day, dims) : IsSession(sql_inserts[j])}
PageViewsOf(day, dims) == {j \in RecordsOf(day, dims) : IsPageView(sql_inserts[j])}

\* the page views of the row that belong to the session emitted at position j
OwnedBy(day, dims, j) ==
    {k \in PageViewsOf(day, dims) :
        sql_inserts[k].session_id = sql_inserts[j].session_id}

MinOf(S) == CHOOSE x \in S : \A y \in S : x <= y
MaxOf(S) == CHOOSE x \in S : \A y \in S : x >= y

\* every row of every day handed to the transform, as <<day index, row index>>
InputRows == {p \in (DOMAIN rows) \X (1..MaxRows + 1) : p[2] <= Len(rows[p[1]].value)}
DayOf(p) == rows[p[1]].key
RowOf(p) == rows[p[1]].value[p[2]]
ViewsIn(p) == RowOf(p).values[1]
SessionsIn(p) == IF RowOf(p).values[2] > 1 THEN RowOf(p).values[2] ELSE 1

\* the rows for which an iteration of the transform's loop has selected a
\* policy so far: the row each finished iteration read its metrics from
HandledRows ==
    IF pc \in {"transform", "done"}
    THEN {p \in InputRows : p[1] < d_idx /\ p[2] = 1}
    ELSE {}

DateLeq(a, b) ==
    \/ a[1] < b[1]
    \/ a[1] = b[1] /\ a[2] < b[2]
    \/ a[1] = b[1] /\ a[2] = b[2] /\ a[3] <= b[3]

\* the calendar day after d
NextDay(d) ==
    IF d[3] < DaysInMonth(d[1], d[2]) THEN <<d[1], d[2], d[3] + 1>>
    ELSE IF d[2] < 12 THEN <<d[1], d[2] + 1, 1>>
    ELSE <<d[1] + 1, 1, 1>>

(* ------------------------------- claims -------------------------------- *)

\* C1: when the transform has returned, every row of every day has exactly
\* as many PageView records as its page-view metric.
C1_PageViewsPerRow ==
    Done => \A p \in InputRows :
                Cardinality(PageViewsOf(DayOf(p), RowOf(p).dimensions)) = ViewsIn(p)

\* C2: when the transform has returned, every row of every day has exactly
\* max(sessions, 1) Session records.
C2_SessionsPerRow ==
    Done => \A p \in InputRows :
                Cardinality(SessionsOf(DayOf(p), RowOf(p).dimensions)) = SessionsIn(p)

\* C3: at every point of a run the Session records of the output, in output
\* order, carry the session ids 1, 2, 3, ... and the PageView records, in
\* output order, carry the view ids 1, 2, 3, ...
C3_IdsSequential ==
    LET S == SelectSeq(sql_inserts, IsSession)
        P == SelectSeq(sql_inserts, IsPageView)
    IN  /\ \A i \in DOMAIN S : S[i].session_id = i
        /\ \A i \in DOMAIN P : P[i].id = i

\* a finished run over two days that emitted at least three sessions and
\* four page views, the second day's after the first day's
C3_Witness ==
    /\ Done
    /\ Len(rows) = 2
    /\ Cardinality({j \in DOMAIN sql_inserts : IsSession(sql_inserts[j])}) >= 3
    /\ Cardinality({j \in DOMAIN sql_inserts : IsPageView(sql_inserts[j])}) >= 4
    /\ \E j \in DOMAIN sql_inserts :
          /\ IsPageView(sql_inserts[j])
          /\ sql_inserts[j].created_at = rows[2].key
          /\ sql_inserts[j].id > 1

\* C4: every PageView record of the output carries the session id of a
\* Session record at an earlier position.
C4_NoForwardReference ==
    \A i \in DOMAIN sql_inserts :
        IsPageView(sql_inserts[i]) =>
            \E j \in 1..(i - 1) :
                /\ IsSession(sql_inserts[j])
                /\ sql_inserts[j].session_id = sql_inserts[i].session_id

\* a finished run in which a row took the rest-for-last branch with extra
\* page views: session, view, session, view, view of one row
C4_Witness ==
    /\ Done
    /\ \E i \in DOMAIN sql_inserts :
          /\ i + 4 \in DOMAIN sql_inserts
          /\ IsSession(sql_inserts[i])
          /\ IsPageView(sql_inserts[i + 1])
          /\ IsSession(sql_inserts[i + 2])
          /\ IsPageView(sql_inserts[i + 3])
          /\ IsPageView(sql_inserts[i + 4])
          /\ sql_inserts[i + 4].session_id = sql_inserts[i + 2].session_id
          /\ sql_inserts[i + 4].dimensions = sql_inserts[i].dimensions
          /\ sql_inserts[i + 4].created_at = sql_inserts[i].created_at

\* C5: when the transform has returned, the last two elements of the output
\* are two sequence-reset entries, the first for the page-view sequence with
\* the last view id used plus one, the second for the session sequence with
\* the last session id used plus one.
C5_TwoResetEntries ==
    Done =>
        LET n == Len(sql_inserts)
            lastView == MaxOf({0} \cup {sql_inserts[j].id :
                            j \in {k \in DOMAIN sql_inserts : IsPageView(sql_inserts[k])}})
            lastSession == MaxOf({0} \cup {sql_inserts[j].session_id :
                            j \in {k \in DOMAIN sql_inserts : IsSession(sql_inserts[k])}})
        IN  /\ n >= 2
            /\ sql_inserts[n - 1] = SequenceReset(
                    <<Setval("public.pageview_view_id_seq", lastView + 1)>>)
            /\ sql_inserts[n] = SequenceReset(
                    <<Setval("public.session_session_id_seq", lastSession + 1)>>)

\* C6: for start <= end, once the partition is computed it lists the days
\* from start to end, each once, each the calendar successor of the one
\* before, every range with startDate = endDate; the extraction has issued
\* one request per range it has passed, in order, each for that single
\* range, and holds that request's rows under that day's key.
C6_OneRangePerDay ==
    (pc # "date_ranges" /\ DateLeq(start_date, end_date)) =>
        /\ Len(date_ranges) =
              Cardinality({d \in CalendarDates :
                              DateLeq(start_date, d) /\ DateLeq(d, end_date)})
        /\ date_ranges[1].startDate = start_date
        /\ date_ranges[Len(date_ranges)].startDate = end_date
        /\ \A i \in DOMAIN date_ranges :
              /\ date_ranges[i].endDate = date_ranges[i].startDate
              /\ i > 1 => date_ranges[i].startDate = NextDay(date_ranges[i - 1].startDate)
        /\ Len(requests) = r_idx - 1
        /\ Len(rows) = r_idx - 1
        /\ pc \in {"transform", "done"} => r_idx - 1 = Len(date_ranges)
        /\ \A i \in DOMAIN requests :
              /\ requests[i].dateRanges = <<date_ranges[i]>>
              /\ rows[i].key = date_ranges[i].startDate
              /\ rows[i].value = requests[i].response

\* a finished run from 2024-02-27 to 2024-03-01, over the leap day
C6_Witness ==
    /\ Done
    /\ start_date = <<2024, 2, 27>>
    /\ end_date = <<2024, 3, 1>>
    /\ Len(requests) = 4

\* C7: when the transform has returned, every row with page views v above
\* its sessions s >= 1 and v not divisible by s has s sessions, of which all
\* but the last own exactly one page view and the last owns 1 + (v - s).
C7_RemainderToLast ==
    Done => \A p \in InputRows :
        LET v == ViewsIn(p)
            s == RowOf(p).values[2]
            S == SessionsOf(DayOf(p), RowOf(p).dimensions)
        IN  (s >= 1 /\ v > s /\ v % s # 0) =>
                /\ Cardinality(S) = s
                /\ \A j \in S :
                      Cardinality(OwnedBy(DayOf(p), RowOf(p).dimensions, j)) =
                          IF j = MaxOf(S) THEN 1 + (v - s) ELSE 1

\* C8: when the transform has returned, every row of every day has a record
\* group in the output, and the groups stand in the order of the days and,
\* within a day, in the order of the rows.
C8_EveryRowInOrder ==
    Done =>
        /\ \A p \in InputRows : RecordsOf(DayOf(p), RowOf(p).dimensions) # {}
        /\ \A p, q \in InputRows :
              (p[1] < q[1] \/ (p[1] = q[1] /\ p[2] < q[2])) =>
                  \A i \in RecordsOf(DayOf(p), RowOf(p).dimensions),
                     j \in RecordsOf(DayOf(q), RowOf(q).dimensions) : i < j
        /\ \A i \in DOMAIN rows : i > 1 => ~DateLeq(rows[i].key, rows[i - 1].key)

====
